---- MODULE Spec2Model ----
(***************************************************************************)
(* Model of solo/utils/ffcv_pretrain_dataloader.py.                        *)
(*                                                                         *)
(* The module is a set of functions and callable objects.  A client calls  *)
(* them one at a time; a state of the model is the situation after one     *)
(* call has finished:                                                      *)
(*   last      the call that was made (its name and its arguments),        *)
(*   outcome   what it did: a returned value or a raised exception,        *)
(*   calls     the invocations of user transforms it made, in order,       *)
(*   ipCalls   the invocations of imagenet_pipelines it made,              *)
(*   loaders   the constructions of ffcv.loader.Loader it made,            *)
(*   baseCalls the lookups in the wrapped dataset class it made.           *)
(*                                                                         *)
(* Floating point arguments are written in hundredths (0.8 is 80) and the  *)
(* normalisation statistics in thousandths (0.485 is 485).                 *)
(***************************************************************************)
EXTENDS Integers, Sequences, FiniteSets

VARIABLES last, outcome, calls, ipCalls, loaders, baseCalls

vars == <<last, outcome, calls, ipCalls, loaders, baseCalls>>

---------------------------------------------------------------------------
(* Bounds of the inputs the client may pass.                               *)

\* longest list of transforms / of crop counts handed to prepare_n_crop_transform
MaxTransforms == 2
\* largest number of crops asked of one transform
MaxCrops == 2

\* user transform callables; images
Transforms == {"aug_a", "aug_b"}
Images == {"img_x", "img_y"}
\* crop counts: any int is accepted by the code, negative ones included
NumCrops == -1 .. MaxCrops

SeqsUpTo(S, n) == UNION {[1 .. k -> S] : k \in 0 .. n}

---------------------------------------------------------------------------
(* Python plumbing.                                                        *)

Return(v) == [kind |-> "return", value |-> v]
Raise(e) == [kind |-> "raise", exc |-> e]

\* a Python list and a Python tuple of the elements s
PyList(s) == [list |-> s]
PyTuple(s) == [tuple |-> s]

\* range(n): 0, 1, ..., n-1, and empty when n <= 0
Range(n) == [i \in 1 .. n |-> i - 1]

Min(a, b) == IF a <= b THEN a ELSE b

\* zip(a, b): pairs up to the shorter of the two lists
Zip(a, b) == [i \in 1 .. Min(Len(a), Len(b)) |-> <<a[i], b[i]>>]

---------------------------------------------------------------------------
(* Further inputs.                                                         *)

\* dataset_with_index: indices asked for, and what the wrapped lookup may give
MaxIndex == 1
MaxFields == 2
Indices == 0 .. MaxIndex
FieldValues == {-1, 0}
BaseOutcomes ==
    {Raise("IndexError")} \cup {Return(PyTuple(d)) : d \in SeqsUpTo(FieldValues, MaxFields)}

\* prepare_transform: dataset names
Datasets == {"imagenet", "imagenet100", "Imagenet", "cifar10"}

\* keyword arguments the client passes to imagenet_pipelines: three of the four
\* required ones always, and any of the others (one of them no parameter at all)
AlwaysGiven == [brightness |-> 40, contrast |-> 40, saturation |-> 20]
SometimesGiven == {"hue", "gaussian_prob", "solarization_prob", "device", "sharpness"}
GivenValues ==
    [hue : {10}, gaussian_prob : {0, 100}, solarization_prob : {20}, device : {1},
     sharpness : {1}]
KwargsInputs ==
    {[p \in DOMAIN AlwaysGiven \cup D |->
         IF p \in DOMAIN AlwaysGiven THEN AlwaysGiven[p] ELSE v[p]] :
     D \in SUBSET SometimesGiven, v \in GivenValues}

\* prepare_dataloader: arguments (the defaults of the signature among them)
default_batch_size == 64
default_num_workers == 4
DatasetPaths == {"train.beton", "train100.beton"}
BatchSizes == {default_batch_size, 256}
WorkerCounts == {default_num_workers, 8}

---------------------------------------------------------------------------
(* NCropAugmentation and FullTransformPipeline.                            *)

\* self.transform(x): the user transform is opaque and may be random, so every
\* invocation yields a value of its own, tagged with its place in the log.
Invoke(t, x, log) ==
    Append(log, [transform |-> t, x |-> x,
                 result |-> [crop_of |-> x, by |-> t, serial |-> Len(log) + 1]])

NCropAugmentation(transform, num_crops) ==
    [class |-> "NCropAugmentation", transform |-> transform, num_crops |-> num_crops]

RECURSIVE NCropLoop(_, _, _, _, _)
NCropLoop(self, x, rng, out, log) ==
    IF rng = <<>> THEN [ret |-> out, log |-> log]
    ELSE LET log2 == Invoke(self.transform, x, log)
         IN  NCropLoop(self, x, Tail(rng), Append(out, log2[Len(log2)].result), log2)

\* a slip: the transform is applied once and its result repeated
NCropAugmentation_call_once(self, x, log) ==
    IF self.num_crops <= 0 THEN [ret |-> <<>>, log |-> log]
    ELSE LET log2 == Invoke(self.transform, x, log)
         IN  [ret |-> [i \in 1 .. self.num_crops |-> log2[Len(log2)].result],
              log |-> log2]

\* [self.transform(x) for _ in range(self.num_crops)]
NCropAugmentation_call(self, x, log) ==
    NCropLoop(self, x, Range(self.num_crops), <<>>, log)

FullTransformPipeline(transforms) ==
    [class |-> "FullTransformPipeline", transforms |-> transforms]

RECURSIVE FullLoop(_, _, _, _)
FullLoop(ts, x, out, log) ==
    IF ts = <<>> THEN [ret |-> out, log |-> log]
    ELSE LET r == NCropAugmentation_call(Head(ts), x, log)
         IN  FullLoop(Tail(ts), x, out \o r.ret, r.log)

\* a slip: out = transform(x) in place of out.extend(transform(x))
RECURSIVE FullLoopAssign(_, _, _, _)
FullLoopAssign(ts, x, out, log) ==
    IF ts = <<>> THEN [ret |-> out, log |-> log]
    ELSE LET r == NCropAugmentation_call(Head(ts), x, log)
         IN  FullLoopAssign(Tail(ts), x, r.ret, r.log)

FullTransformPipeline_call_assign(self, x, log) ==
    FullLoopAssign(self.transforms, x, <<>>, log)

\* out = []; for transform in self.transforms: out.extend(transform(x)); return out
FullTransformPipeline_call(self, x, log) ==
    FullLoop(self.transforms, x, <<>>, log)

\* a slip: the length assertion left out, so zip silently truncates
prepare_n_crop_transform_unchecked(transforms, num_crops_per_aug) ==
    LET z == Zip(transforms, num_crops_per_aug)
    IN  Return(FullTransformPipeline(
            [i \in DOMAIN z |-> NCropAugmentation(z[i][1], z[i][2])]))

prepare_n_crop_transform(transforms, num_crops_per_aug) ==
    IF Len(transforms) # Len(num_crops_per_aug) THEN Raise("AssertionError")
    ELSE LET z == Zip(transforms, num_crops_per_aug)
         IN  Return(FullTransformPipeline(
                 [i \in DOMAIN z |-> NCropAugmentation(z[i][1], z[i][2])]))

---------------------------------------------------------------------------
(* dataset_with_index.                                                     *)

\* super().__getitem__(index): the wrapped class is the caller's; its lookup
\* either returns a tuple or raises, and the lookup is logged.
BaseGetItem(index, base, log) == Append(log, [index |-> index, outcome |-> base])

\* a slip: the index appended after the data instead of put in front
DatasetWithIndex_getitem_index_last(index, base, log) ==
    [outcome |-> IF base.kind = "raise" THEN base ELSE Return(PyTuple(base.value.tuple \o <<index>>)),
     log |-> BaseGetItem(index, base, log)]

\* data = super().__getitem__(index); return (index, *data)
DatasetWithIndex_getitem(index, base, log) ==
    [outcome |-> IF base.kind = "raise" THEN base ELSE Return(PyTuple(<<index>> \o base.value.tuple)),
     log |-> BaseGetItem(index, base, log)]

---------------------------------------------------------------------------
(* imagenet_pipelines and prepare_transform.                               *)

ParamNames ==
    {"brightness", "contrast", "saturation", "hue", "color_jitter_prob",
     "gray_scale_prob", "horizontal_flip_prob", "gaussian_prob", "solarization_prob",
     "min_scale", "max_scale", "crop_size", "device"}

\* the parameters without a default
Required == {"brightness", "contrast", "saturation", "hue"}

\* the defaults of the signature
Defaults ==
    [color_jitter_prob |-> 80, gray_scale_prob |-> 20, horizontal_flip_prob |-> 50,
     gaussian_prob |-> 50, solarization_prob |-> 0, min_scale |-> 8, max_scale |-> 100,
     crop_size |-> 224, device |-> 0]

\* Python's binding of keyword arguments to the signature
Binds(kwargs) == Required \subseteq DOMAIN kwargs /\ DOMAIN kwargs \subseteq ParamNames

Bind(kwargs) ==
    [p \in ParamNames |-> IF p \in DOMAIN kwargs THEN kwargs[p] ELSE Defaults[p]]

ImagePipeline(a) ==
    << [step |-> "RandomResizedCropRGBImageDecoder",
        output_size |-> <<a["crop_size"], a["crop_size"]>>,
        scale |-> <<a["min_scale"], a["max_scale"]>>],
       [step |-> "RandomApply",
        transforms |-> << [step |-> "ColorJitter", brightness |-> a["brightness"],
                           contrast |-> a["contrast"], saturation |-> a["saturation"],
                           hue |-> a["hue"]] >>,
        p |-> a["color_jitter_prob"]],
       [step |-> "RandomGrayscale", p |-> a["gray_scale_prob"]],
       [step |-> "RandomApply", transforms |-> << [step |-> "GaussianBlur"] >>,
        p |-> a["gaussian_prob"]],
       [step |-> "RandomApply", transforms |-> << [step |-> "Solarization"] >>,
        p |-> a["solarization_prob"]],
       [step |-> "RandomHorizontalFlip", flip_prob |-> a["horizontal_flip_prob"]],
       [step |-> "ToTensor"],
       [step |-> "ToDevice", device |-> a["device"], non_blocking |-> TRUE],
       [step |-> "ToTorchImage"],
       [step |-> "NormalizeImage", mean |-> <<485, 456, 406>>, std |-> <<228, 224, 225>>,
        type |-> "float16"] >>

LabelPipeline(a) ==
    << [step |-> "IntDecoder"], [step |-> "ToTensor"], [step |-> "Squeeze"],
       [step |-> "ToDevice", device |-> a["device"], non_blocking |-> TRUE] >>

\* a slip: the image normalised before it is moved to the device
imagenet_pipelines_normalize_early(kwargs) ==
    IF ~Binds(kwargs) THEN Raise("TypeError")
    ELSE LET a == Bind(kwargs)
             img == ImagePipeline(a)
         IN  Return([image |-> SubSeq(img, 1, 7) \o <<img[10], img[8], img[9]>>,
                     label |-> LabelPipeline(a)])

imagenet_pipelines(kwargs) ==
    IF ~Binds(kwargs) THEN Raise("TypeError")
    ELSE LET a == Bind(kwargs)
         IN  Return([image |-> ImagePipeline(a), label |-> LabelPipeline(a)])

\* imagenet_pipelines(**kwargs) as a logged call
InvokeImagenetPipelines(kwargs, log) ==
    Append(log, [kwargs |-> kwargs, result |-> imagenet_pipelines(kwargs)])

\* a slip: only one of the two dataset names is accepted
prepare_transform_one_name(dataset, kwargs, log) ==
    IF dataset = "imagenet"
    THEN LET log2 == InvokeImagenetPipelines(kwargs, log)
         IN  [outcome |-> log2[Len(log2)].result, log |-> log2]
    ELSE [outcome |-> Raise("ValueError"), log |-> log]

prepare_transform(dataset, kwargs, log) ==
    IF dataset \in {"imagenet", "imagenet100"}
    THEN LET log2 == InvokeImagenetPipelines(kwargs, log)
         IN  [outcome |-> log2[Len(log2)].result, log |-> log2]
    ELSE [outcome |-> Raise("ValueError"), log |-> log]

---------------------------------------------------------------------------
(* prepare_dataloader.                                                     *)

\* Loader(...): the external constructor, logged with the arguments it got
ConstructLoader(args, log) ==
    Append(log, [class |-> "Loader", serial |-> Len(log) + 1, args |-> args])

\* a slip: the two ordering options swapped
prepare_dataloader_swapped(train_ffcv_dataset, pipelines, batch_size, num_workers, distributed, fit_mem, log) ==
    LET order == IF distributed THEN "QUASI_RANDOM" ELSE "RANDOM"
        log2 == ConstructLoader(
                    [fname |-> train_ffcv_dataset, batch_size |-> batch_size,
                     num_workers |-> num_workers, order |-> order, os_cache |-> fit_mem,
                     drop_last |-> TRUE, pipelines |-> pipelines,
                     distributed |-> distributed], log)
    IN  [outcome |-> Return(log2[Len(log2)]), log |-> log2]

\* a slip: drop_last follows fit_mem instead of being True
prepare_dataloader_drop_last(train_ffcv_dataset, pipelines, batch_size, num_workers, distributed, fit_mem, log) ==
    LET order == IF distributed THEN "RANDOM" ELSE "QUASI_RANDOM"
        log2 == ConstructLoader(
                    [fname |-> train_ffcv_dataset, batch_size |-> batch_size,
                     num_workers |-> num_workers, order |-> order, os_cache |-> fit_mem,
                     drop_last |-> fit_mem, pipelines |-> pipelines,
                     distributed |-> distributed], log)
    IN  [outcome |-> Return(log2[Len(log2)]), log |-> log2]

prepare_dataloader(train_ffcv_dataset, pipelines, batch_size, num_workers, distributed, fit_mem, log) ==
    LET order == IF distributed THEN "RANDOM" ELSE "QUASI_RANDOM"
        log2 == ConstructLoader(
                    [fname |-> train_ffcv_dataset, batch_size |-> batch_size,
                     num_workers |-> num_workers, order |-> order, os_cache |-> fit_mem,
                     drop_last |-> TRUE, pipelines |-> pipelines,
                     distributed |-> distributed], log)
    IN  [outcome |-> Return(log2[Len(log2)]), log |-> log2]

---------------------------------------------------------------------------
(* The client's calls.                                                     *)

Init ==
    /\ last = [op |-> "start"]
    /\ outcome = [kind |-> "none"]
    /\ calls = <<>>
    /\ ipCalls = <<>>
    /\ loaders = <<>>
    /\ baseCalls = <<>>

\* NCropAugmentation(t, n)(x)
CallNCropAugmentation ==
    \E t \in Transforms, n \in NumCrops, x \in Images :
        LET self == NCropAugmentation(t, n)
            r == NCropAugmentation_call(self, x, <<>>)
        IN  /\ last' = [op |-> "NCropAugmentation.__call__", self |-> self, x |-> x]
            /\ outcome' = Return(PyList(r.ret))
            /\ calls' = r.log
            /\ ipCalls' = <<>>
            /\ loaders' = <<>>
            /\ baseCalls' = <<>>

\* prepare_n_crop_transform(transforms, num_crops_per_aug)
CallPrepareNCropTransform ==
    \E ts \in SeqsUpTo(Transforms, MaxTransforms),
       ns \in SeqsUpTo(NumCrops, MaxTransforms) :
        /\ last' = [op |-> "prepare_n_crop_transform",
                    transforms |-> ts, num_crops_per_aug |-> ns]
        /\ outcome' = prepare_n_crop_transform(ts, ns)
        /\ calls' = <<>>
        /\ ipCalls' = <<>>
        /\ loaders' = <<>>
        /\ baseCalls' = <<>>

\* pipeline(x), for the pipeline that prepare_n_crop_transform has just returned
CallFullTransformPipeline ==
    /\ last.op = "prepare_n_crop_transform"
    /\ outcome.kind = "return"
    /\ \E x \in Images :
        LET r == FullTransformPipeline_call(outcome.value, x, <<>>)
        IN  /\ last' = [op |-> "FullTransformPipeline.__call__", self |-> outcome.value,
                        transforms |-> last.transforms,
                        num_crops_per_aug |-> last.num_crops_per_aug, x |-> x]
            /\ outcome' = Return(PyList(r.ret))
            /\ calls' = r.log
            /\ ipCalls' = <<>>
            /\ loaders' = <<>>
            /\ baseCalls' = <<>>

\* dataset_with_index(Base)(...)[index]
CallGetItem ==
    \E index \in Indices, base \in BaseOutcomes :
        LET r == DatasetWithIndex_getitem(index, base, <<>>)
        IN  /\ last' = [op |-> "DatasetWithIndex.__getitem__", index |-> index]
            /\ outcome' = r.outcome
            /\ baseCalls' = r.log
            /\ calls' = <<>>
            /\ ipCalls' = <<>>
            /\ loaders' = <<>>

\* imagenet_pipelines(**kwargs)
CallImagenetPipelines ==
    \E kwargs \in KwargsInputs :
        LET log == InvokeImagenetPipelines(kwargs, <<>>)
        IN  /\ last' = [op |-> "imagenet_pipelines", kwargs |-> kwargs]
            /\ outcome' = log[1].result
            /\ ipCalls' = log
            /\ calls' = <<>>
            /\ loaders' = <<>>
            /\ baseCalls' = <<>>

\* prepare_transform(dataset, **kwargs)
CallPrepareTransform ==
    \E dataset \in Datasets, kwargs \in KwargsInputs :
        LET r == prepare_transform(dataset, kwargs, <<>>)
        IN  /\ last' = [op |-> "prepare_transform", dataset |-> dataset,
                        kwargs |-> kwargs]
            /\ outcome' = r.outcome
            /\ ipCalls' = r.log
            /\ calls' = <<>>
            /\ loaders' = <<>>
            /\ baseCalls' = <<>>

\* prepare_dataloader(path, pipelines, ...), the pipelines being those that
\* imagenet_pipelines or prepare_transform has just returned
CallPrepareDataloader ==
    /\ last.op \in {"imagenet_pipelines", "prepare_transform"}
    /\ outcome.kind = "return"
    /\ \E path \in DatasetPaths, batch_size \in BatchSizes, num_workers \in WorkerCounts,
          distributed \in BOOLEAN, fit_mem \in BOOLEAN :
        LET r == prepare_dataloader(path, outcome.value, batch_size, num_workers,
                                    distributed, fit_mem, <<>>)
        IN  /\ last' = [op |-> "prepare_dataloader", train_ffcv_dataset |-> path,
                        pipelines |-> outcome.value, batch_size |-> batch_size,
                        num_workers |-> num_workers, distributed |-> distributed,
                        fit_mem |-> fit_mem]
            /\ outcome' = r.outcome
            /\ loaders' = r.log
            /\ calls' = <<>>
            /\ ipCalls' = <<>>
            /\ baseCalls' = <<>>

Next ==
    \/ CallNCropAugmentation
    \/ CallPrepareNCropTransform
    \/ CallFullTransformPipeline
    \/ CallGetItem
    \/ CallImagenetPipelines
    \/ CallPrepareTransform
    \/ CallPrepareDataloader

Spec == Init /\ [][Next]_vars

---------------------------------------------------------------------------
(* Properties.                                                             *)

RECURSIVE SumSeq(_)
SumSeq(s) == IF s = <<>> THEN 0 ELSE Head(s) + SumSeq(Tail(s))

\* the sum of the first k elements of s
SumFirst(s, k) == SumSeq(SubSeq(s, 1, k))

\* C1: an NCropAugmentation built with transform t and num_crops = n >= 0, called
\* on x, invokes t exactly n times, every time on x, and returns the list of the
\* n results, the i-th element being the result of the i-th invocation.
C1_NCropInvokesTransformNTimes ==
    (last.op = "NCropAugmentation.__call__" /\ last.self.num_crops >= 0) =>
        LET n == last.self.num_crops
        IN  /\ Len(calls) = n
            /\ \A i \in 1 .. n :
                   calls[i].transform = last.self.transform /\ calls[i].x = last.x
            /\ outcome.kind = "return"
            /\ Len(outcome.value.list) = n
            /\ \A i \in 1 .. n : outcome.value.list[i] = calls[i].result

\* a call with n = 2 that returned two crops, each from an invocation of its own
C1_Witness ==
    /\ last.op = "NCropAugmentation.__call__"
    /\ last.self.num_crops = 2
    /\ Len(calls) = 2
    /\ Len(outcome.value.list) = 2
    /\ outcome.value.list[1] # outcome.value.list[2]

C3_PrepareTransformDispatch ==
    last.op = "prepare_transform" =>
        IF last.dataset \in {"imagenet", "imagenet100"}
        THEN /\ Len(ipCalls) = 1
             /\ ipCalls[1].kwargs = last.kwargs
             /\ outcome = ipCalls[1].result
        ELSE /\ outcome.kind = "raise"
             /\ outcome.exc = "ValueError"
             /\ ipCalls = <<>>

\* "imagenet100" was asked for and the pipelines came back
C3_Witness ==
    /\ last.op = "prepare_transform"
    /\ last.dataset = "imagenet100"
    /\ outcome.kind = "return"
    /\ Len(ipCalls) = 1

\* C4 as stated: the pipeline of prepare_n_crop_transform(transforms,
\* num_crops_per_aug), called on x, returns sum(num_crops_per_aug) crops, the
\* blocks of the transforms one after the other in list order.
C4_AsStated ==
    last.op = "FullTransformPipeline.__call__" =>
        LET ns == last.num_crops_per_aug
        IN  /\ outcome.kind = "return"
            /\ Len(outcome.value.list) = SumSeq(ns)
            /\ Len(calls) = SumSeq(ns)
            /\ \A i \in 1 .. Len(ns) : \A j \in 1 .. ns[i] :
                   LET k == SumFirst(ns, i - 1) + j
                   IN  /\ calls[k].transform = last.transforms[i]
                       /\ calls[k].x = last.x
                       /\ outcome.value.list[k] = calls[k].result

\* the number of crops a count of n gives: range(n) is empty for n < 0
CropsOf(ns) == [i \in 1 .. Len(ns) |-> IF ns[i] < 0 THEN 0 ELSE ns[i]]

\* C4, amended: the same with every count n taken as max(n, 0): the result has
\* sum(max(n_i, 0)) crops and is the concatenation, in list order, of the blocks
\* of max(n_i, 0) crops of transforms[i]; the transforms are invoked in that
\* order, those of transforms[i] all before the first of transforms[i+1].
C4_FlatConcatenation ==
    last.op = "FullTransformPipeline.__call__" =>
        LET ns == CropsOf(last.num_crops_per_aug)
        IN  /\ outcome.kind = "return"
            /\ Len(outcome.value.list) = SumSeq(ns)
            /\ Len(calls) = SumSeq(ns)
            /\ \A i \in 1 .. Len(ns) : \A j \in 1 .. ns[i] :
                   LET k == SumFirst(ns, i - 1) + j
                   IN  /\ calls[k].transform = last.transforms[i]
                       /\ calls[k].x = last.x
                       /\ outcome.value.list[k] = calls[k].result

\* two different transforms, two crops of the first and one of the second
C4_Witness ==
    /\ last.op = "FullTransformPipeline.__call__"
    /\ last.num_crops_per_aug = <<2, 1>>
    /\ last.transforms[1] # last.transforms[2]
    /\ Len(outcome.value.list) = 3

\* C5: without a gaussian_prob argument the Gaussian blur of the image pipeline
\* is applied with probability 0.0, as the docstring says.
C5_GaussianProbDefaultsToZero ==
    \A i \in DOMAIN ipCalls :
        (/\ "gaussian_prob" \notin DOMAIN ipCalls[i].kwargs
         /\ ipCalls[i].result.kind = "return")
            => ipCalls[i].result.value.image[4].p = 0

\* C6: prepare_dataloader constructs the Loader once, with the path, batch_size,
\* num_workers, pipelines and distributed it was given, os_cache = fit_mem and
\* drop_last = True, and returns that Loader.
C6_LoaderArgumentsForwarded ==
    last.op = "prepare_dataloader" =>
        /\ Len(loaders) = 1
        /\ loaders[1].args.fname = last.train_ffcv_dataset
        /\ loaders[1].args.batch_size = last.batch_size
        /\ loaders[1].args.num_workers = last.num_workers
        /\ loaders[1].args.pipelines = last.pipelines
        /\ loaders[1].args.distributed = last.distributed
        /\ loaders[1].args.os_cache = last.fit_mem
        /\ loaders[1].args.drop_last = TRUE
        /\ outcome.kind = "return"
        /\ outcome.value = loaders[1]

\* a loader built with fit_mem false, distributed true and a batch size of its own
C6_Witness ==
    /\ last.op = "prepare_dataloader"
    /\ ~last.fit_mem
    /\ last.distributed
    /\ last.batch_size # default_batch_size
    /\ outcome.kind = "return"
    /\ ~outcome.value.args.os_cache

StepsOf(pipeline) == [j \in 1 .. Len(pipeline) |-> pipeline[j].step]

\* C7: imagenet_pipelines returns a mapping with the keys "image" and "label"; the
\* image pipeline is the ten steps decoder, color jitter, grayscale, Gaussian
\* blur, solarization, horizontal flip, ToTensor, ToDevice, ToTorchImage,
\* NormalizeImage in this order, the label pipeline IntDecoder, ToTensor, Squeeze,
\* ToDevice, and both ToDevice steps get the device argument.
C7_PipelinesShape ==
    \A i \in DOMAIN ipCalls :
        LET kw == ipCalls[i].kwargs
            r == ipCalls[i].result
        IN  (/\ {"brightness", "contrast", "saturation", "hue"} \subseteq DOMAIN kw
             /\ DOMAIN kw \subseteq ParamNames)
            => /\ r.kind = "return"
               /\ DOMAIN r.value = {"image", "label"}
               /\ StepsOf(r.value.image) =
                      <<"RandomResizedCropRGBImageDecoder", "RandomApply",
                        "RandomGrayscale", "RandomApply", "RandomApply",
                        "RandomHorizontalFlip", "ToTensor", "ToDevice", "ToTorchImage",
                        "NormalizeImage">>
               /\ StepsOf(r.value.image[2].transforms) = <<"ColorJitter">>
               /\ StepsOf(r.value.image[4].transforms) = <<"GaussianBlur">>
               /\ StepsOf(r.value.image[5].transforms) = <<"Solarization">>
               /\ StepsOf(r.value.label) = <<"IntDecoder", "ToTensor", "Squeeze", "ToDevice">>
               /\ r.value.image[8].device = r.value.label[4].device
               /\ "device" \in DOMAIN kw => r.value.label[4].device = kw["device"]

\* pipelines built for a device given by the caller
C7_Witness ==
    /\ last.op = "imagenet_pipelines"
    /\ "device" \in DOMAIN last.kwargs
    /\ outcome.kind = "return"
    /\ Len(outcome.value.image) = 10
    /\ outcome.value.label[4].device = 1

\* C8: __getitem__(index) of a class made by dataset_with_index looks the index up
\* in the base class once; it returns the index followed by the elements of the
\* base item, in order and unchanged, and an error of the base lookup propagates.
C8_IndexPrepended ==
    last.op = "DatasetWithIndex.__getitem__" =>
        /\ Len(baseCalls) = 1
        /\ baseCalls[1].index = last.index
        /\ IF baseCalls[1].outcome.kind = "raise"
           THEN outcome = baseCalls[1].outcome
           ELSE LET data == baseCalls[1].outcome.value.tuple
                IN  /\ outcome.kind = "return"
                    /\ Len(outcome.value.tuple) = Len(data) + 1
                    /\ outcome.value.tuple[1] = last.index
                    /\ \A j \in 1 .. Len(data) : outcome.value.tuple[j + 1] = data[j]

\* index 1 of a base whose item is (0, -1)
C8_Witness ==
    /\ last.op = "DatasetWithIndex.__getitem__"
    /\ last.index = 1
    /\ outcome.kind = "return"
    /\ outcome.value.tuple = <<1, 0, -1>>

\* C9: the order given to the Loader is RANDOM exactly when distributed is true and
\* QUASI_RANDOM exactly when it is false, and the same distributed value is
\* forwarded.
C9_OrderFollowsDistributed ==
    last.op = "prepare_dataloader" =>
        /\ Len(loaders) = 1
        /\ loaders[1].args.order = "RANDOM" <=> last.distributed
        /\ loaders[1].args.order = "QUASI_RANDOM" <=> ~last.distributed
        /\ loaders[1].args.distributed = last.distributed

\* a loader for a run that is not distributed, with fit_mem set
C9_Witness ==
    /\ last.op = "prepare_dataloader"
    /\ ~last.distributed
    /\ last.fit_mem
    /\ Len(loaders) = 1
    /\ loaders[1].args.order = "QUASI_RANDOM"

====
